---- MODULE Spec2Model ----
(***************************************************************************)
(* ProxyAgent CoreService: the streaming relay (AIFClient.generate_response)*)
(* with its conversation store (InMemoryStorage), the SSE formatter         *)
(* (format_sse) and the HTTP endpoint (stream_messages).                    *)
(*                                                                         *)
(* Python strings are sequences of one-character strings, so that split,   *)
(* join, lower and substring search are computed the way the code computes *)
(* them.  Every state of the model is a state in which all coroutines are  *)
(* parked at a suspension point of the asyncio event loop: one action is   *)
(* the code a coroutine runs between two suspension points.                *)
(***************************************************************************)
EXTENDS Integers, Sequences, FiniteSets, TLC

\* ------------------------------------------------------------------ bounds
NumReqs == 2        \* HTTP requests in flight
MaxUnits == 2       \* units all backend streams together may produce (Spec)
MaxStreamUnits == 3 \* units the backend stream may produce (SpecStream)
MaxLockUnits == 1   \* units all backend streams together may produce (FairSpec)
MaxFrameUnits == 1  \* units the backend stream may produce (SpecFrames)
MaxPayload == 3     \* length of the text of a unit (SpecFrames)
MaxFaults == 1      \* exceptions raised below the relay, over all requests
MaxDisconnects == 1 \* clients that go away mid-stream

\* ----------------------------------------------------------- Python values
\* None, as returned by dict.get for a missing key and as the service_thread_id
\* of a thread handle the backend has not populated
None == "None"

Reqs == 1..NumReqs

\* ------------------------------------------------------------------ strings
RECURSIVE Concat(_)
\* "".join(parts)
Concat(parts) ==
    IF parts = <<>> THEN <<>> ELSE Head(parts) \o Concat(Tail(parts))

RECURSIVE Split(_, _)
\* str.split(sep) for a one-character sep: k separators give k+1 pieces
Split(s, sep) ==
    IF \A i \in 1..Len(s) : s[i] # sep
    THEN <<s>>
    ELSE LET i == CHOOSE i \in 1..Len(s) :
                      s[i] = sep /\ \A j \in 1..(i - 1) : s[j] # sep
         IN <<SubSeq(s, 1, i - 1)>> \o Split(SubSeq(s, i + 1, Len(s)), sep)

RECURSIVE Join(_, _)
\* sep.join(parts)
Join(sep, parts) ==
    IF parts = <<>> THEN <<>>
    ELSE IF Len(parts) = 1 THEN Head(parts)
    ELSE Head(parts) \o sep \o Join(sep, Tail(parts))

UpperAlpha == <<"A","B","C","D","E","F","G","H","I","J","K","L","M",
                "N","O","P","Q","R","S","T","U","V","W","X","Y","Z">>
LowerAlpha == <<"a","b","c","d","e","f","g","h","i","j","k","l","m",
                "n","o","p","q","r","s","t","u","v","w","x","y","z">>

\* str.lower(), character by character
Lower(s) ==
    [i \in 1..Len(s) |->
        IF \E k \in 1..26 : UpperAlpha[k] = s[i]
        THEN LowerAlpha[CHOOSE k \in 1..26 : UpperAlpha[k] = s[i]]
        ELSE s[i]]

\* needle in haystack
Contains(haystack, needle) ==
    \E i \in 0..(Len(haystack) - Len(needle)) :
        SubSeq(haystack, i + 1, i + Len(needle)) = needle

RECURSIVE Digits(_)
\* str(n) for n >= 0
Digits(n) ==
    LET d == <<"0","1","2","3","4","5","6","7","8","9">>[(n % 10) + 1]
    IN IF n < 10 THEN <<d>> ELSE Digits(n \div 10) \o <<d>>

\* json.dumps of a str: quotes, with the quote, the backslash and the newline escaped
JsonString(s) ==
    <<"\"">> \o
    Concat([i \in 1..Len(s) |->
        IF s[i] = "\"" THEN <<"\\", "\"">>
        ELSE IF s[i] = "\\" THEN <<"\\", "\\">>
        ELSE IF s[i] = "\n" THEN <<"\\", "n">>
        ELSE <<s[i]>>]) \o
    <<"\"">>

\* -------------------------------------------------------------- literals
EvText  == <<"t","e","x","t">>
EvUsage == <<"u","s","a","g","e">>
EvError == <<"e","r","r","o","r">>
EventPrefix == <<"e","v","e","n","t",":"," ">>
DataPrefix  == <<"d","a","t","a",":"," ">>
NL == <<"\n">>
Calendar == <<"c","a","l","e","n","d","a","r">>
JsonInstruction ==
    <<"\n","\n","R","e","t","u","r","n"," ","t","h","e"," ",
      "r","e","s","p","o","n","s","e"," ","i","n"," ",
      "J","S","O","N"," ","f","o","r","m","a","t",".">>
Detail400 == "conversationId cannot be null or empty."

\* ---------------------------------------------------------- EventFormatter
\* Faulty variant: the payload is not split into lines: one data prefix for all of it
format_sse_unsplit(data, event) ==
    EventPrefix \o event \o NL \o DataPrefix \o data \o NL \o NL

\* Faulty variant: the payload is cut up as str.splitlines does, which gives no
\* last empty line
format_sse_splitlines(data, event) ==
    LET all == Split(data, "\n")
        lines == IF all[Len(all)] = <<>> THEN SubSeq(all, 1, Len(all) - 1)
                 ELSE all
        sse_data == Join(NL, [i \in 1..Len(lines) |-> DataPrefix \o lines[i]])
    IN EventPrefix \o event \o NL \o sse_data \o NL \o NL

\* format_sse(data, event="text")
format_sse(data, event) ==
    LET lines == Split(data, "\n")
        sse_data == Join(NL, [i \in 1..Len(lines) |-> DataPrefix \o lines[i]])
    IN EventPrefix \o event \o NL \o sse_data \o NL \o NL

\* An SSE client's reading of one frame: the event name of its first line, and
\* its data lines with the prefix removed, joined by newlines.
EventOf(frame) ==
    LET first == Head(Split(frame, "\n"))
    IN SubSeq(first, Len(EventPrefix) + 1, Len(first))

DataOf(frame) ==
    LET lines == Split(frame, "\n")
        body == SubSeq(lines, 2, Len(lines) - 2)
    IN Join(NL, [i \in 1..Len(body) |->
                    SubSeq(body[i], Len(DataPrefix) + 1, Len(body[i]))])

\* ------------------------------------------------------------ usage record
\* dict.get(key, 0) on usage_details; a value is <<n>>, or <<>> for null
Get(details, key) ==
    IF key \in DOMAIN details THEN details[key] ELSE <<0>>

\* v or 0
OrZero(v) == IF v = <<>> \/ v = <<0>> THEN 0 ELSE v[1]

\* Faulty variant: the key of the first field pasted into the second
Usage_pasted_key(details) ==
    [input_tokens  |-> OrZero(Get(details, "input_token_count")),
     output_tokens |-> OrZero(Get(details, "input_token_count")),
     total_tokens  |-> OrZero(Get(details, "total_token_count"))]

\* Usage(input_tokens=..., output_tokens=..., total_tokens=...)
Usage(details) ==
    [input_tokens  |-> OrZero(Get(details, "input_token_count")),
     output_tokens |-> OrZero(Get(details, "output_token_count")),
     total_tokens  |-> OrZero(Get(details, "total_token_count"))]

\* Usage.model_dump_json(): compact JSON, fields in declaration order
model_dump_json(usage) ==
    <<"{","\"","i","n","p","u","t","_","t","o","k","e","n","s","\"",":">>
        \o Digits(usage.input_tokens) \o
    <<",","\"","o","u","t","p","u","t","_","t","o","k","e","n","s","\"",":">>
        \o Digits(usage.output_tokens) \o
    <<",","\"","t","o","t","a","l","_","t","o","k","e","n","s","\"",":">>
        \o Digits(usage.total_tokens) \o <<"}">>

\* json.dumps({"error": str(e)})
ErrorJson(msg) ==
    <<"{","\"","e","r","r","o","r","\"",":"," ">> \o JsonString(msg) \o <<"}">>

\* ------------------------------------------------------------ backend units
\* One unit (AgentRunResponseUpdate) of run_stream: its text and its contents.
\* usage_details is <<d>> for a dict d, <<>> for None.
TextContent == [type |-> "text", usage_details |-> <<>>]
UsageContent(details) == [type |-> "usage", usage_details |-> <<details>>]
BrokenUsageContent == [type |-> "usage", usage_details |-> <<>>]

UnitA == [text |-> <<"a">>, contents |-> <<TextContent>>]
UnitBC == [text |-> <<"b","\n","c">>, contents |-> <<TextContent>>]
\* input absent, output null, total 5
UnitUsage ==
    [text |-> <<>>,
     contents |-> <<UsageContent([output_token_count |-> <<>>,
                                  total_token_count |-> <<5>>])>>]
UnitBroken == [text |-> <<>>, contents |-> <<BrokenUsageContent>>]
NoUnit == [text |-> <<>>, contents |-> <<>>]
\* a content that is neither text nor usage (a function call, say)
OtherContent == [type |-> "function_call", usage_details |-> <<>>]
\* two usage contents in one unit
UnitUsage2 ==
    [text |-> <<>>,
     contents |-> <<UsageContent([input_token_count |-> <<3>>]),
                    UsageContent([total_token_count |-> <<40>>])>>]
\* text together with usage accounting
UnitTextUsage ==
    [text |-> <<"d">>,
     contents |-> <<TextContent, UsageContent([total_token_count |-> <<7>>])>>]
\* neither text nor usage
UnitOther == [text |-> <<>>, contents |-> <<OtherContent>>]

Units == {UnitA, UnitBC, UnitUsage, UnitBroken, UnitUsage2, UnitTextUsage,
          UnitOther}

\* Every text of a and newline up to MaxPayload characters, and the text of
\* the framing law.
Line1Line2 == <<"l","i","n","e","1","\n","l","i","n","e","2">>
Payloads ==
    UNION {[1..n -> {"a", "\n"}] : n \in 1..MaxPayload} \cup {Line1Line2}
PayloadUnits == {[text |-> p, contents |-> <<TextContent>>] : p \in Payloads}

\* Every usage_details: each count absent, null, 0 or 12.
UsageKeys == {"input_token_count", "output_token_count", "total_token_count"}
UsageDetails ==
    UNION {[K -> {<<>>, <<0>>, <<12>>}] : K \in SUBSET UsageKeys}
UsageUnits ==
    {[text |-> <<>>, contents |-> <<UsageContent(d)>>] : d \in UsageDetails}
        \cup {UnitUsage}

\* str(e) of what the backend raises
Errors == {<<"b","a","d"," ","\"","g","w","\"","\n","5","0","2">>}
ThreadError == <<"n","o"," ","t","h","r","e","a","d">>
PayloadError == <<"'","N","o","n","e","T","y","p","e","'">>
StdoutError == <<"s","t","d","o","u","t">>

\* ------------------------------------------------------------ request inputs
Hi == <<"h","i">>
Texts == {Hi, <<"m","y"," ","C","a","l","e","n","d","a","r">>}
\* texts around the word: inside a longer word, in capitals, misspelt, cut
\* short, broken by a space, and none
Calendarium == <<"c","a","l","e","n","d","a","r","i","u","m">>
AgentTexts ==
    {Hi, <<>>,
     <<"m","y"," ","C","a","l","e","n","d","a","r">>,
     Calendarium,
     <<"a"," ","C","A","L","E","N","D","A","R","!">>,
     <<"c","A","l","E","n","D","a","R">>,
     <<"c","a","l","e","n","d","e","r">>,
     <<"c","a","l","e","n","d","a">>,
     <<"c","a","l"," ","e","n","d","a","r">>}
ConvIds == {"c1", "c2"}
\* service thread ids, in the order the backend hands them out
ThreadIds == <<"t1", "t2", "t3", "t4", "t5", "t6">>

\* ------------------------------------------------------------------- state
VARIABLES
    data,       \* InMemoryStorage._data: a dict, external id -> internal id
    locked,     \* InMemoryStorage._lock is held
    assigned,   \* number of thread ids the backend has handed out
    req,        \* per request: the locals of stream_messages and generate_response
    hist        \* per request: what the call has done so far (history only)

vars == <<data, locked, assigned, req, hist>>

\* ------------------------------------------------------------- SessionStore
\* Faulty variant: the lookup does not use the key: any stored id is returned
get_internal_id_any_key(d, external_id) ==
    IF DOMAIN d # {} THEN d[CHOOSE k \in DOMAIN d : TRUE] ELSE None

\* self._data.get(external_id)
get_internal_id(d, external_id) ==
    IF external_id \in DOMAIN d THEN d[external_id] ELSE None

\* Faulty variant: setdefault: a mapping that exists is kept
save_mapping_if_absent(d, external_id, internal_id) ==
    [k \in DOMAIN d \cup {external_id} |->
        IF k \in DOMAIN d THEN d[k] ELSE internal_id]

\* self._data[external_id] = internal_id
save_mapping(d, external_id, internal_id) ==
    [k \in DOMAIN d \cup {external_id} |->
        IF k = external_id THEN internal_id ELSE d[k]]

\* Faulty variant: acquire and release around the body without try/finally: an
\* exception in the body leaves the lock held
lock_kept_on_exception(raises) == raises

\* async with self._lock: the lock is taken on entry and released on exit,
\* whether the body returns or raises
async_with_lock(raises) == FALSE

\* ------------------------------------------------------------- RelayEngine
\* Faulty variant: the text is not lowered before the search
is_calendar_request_case_sensitive(text) == Contains(text, Calendar)

is_calendar_request(text) == Contains(Lower(text), Calendar)

select_agent(text) ==
    IF is_calendar_request(text) THEN "builder_agent" ELSE "chat_agent"

user_input(text) ==
    IF is_calendar_request(text) THEN text \o JsonInstruction ELSE text

\* Faulty variant: the stored id is not passed on: every handle is a new thread
get_new_thread_always_new(thread_id) == None

\* agent.get_new_thread(service_thread_id=thread_id) / agent.get_new_thread():
\* the service_thread_id of the handle
get_new_thread(thread_id) == thread_id

\* Faulty variant: the test on thread_id inverted
should_save_inverted(thread_id, service_thread_id) ==
    thread_id # None /\ service_thread_id # None

\* if not thread_id and thread.service_thread_id
should_save(thread_id, service_thread_id) ==
    thread_id = None /\ service_thread_id # None

\* the frame of the except clause
error_frame(msg) == format_sse(ErrorJson(msg), EvError)

\* Faulty variant: the contents loop breaks after its first usage content
NextUsage_break_after_first(u, i) ==
    LET S == {j \in 1..Len(u.contents) : u.contents[j].type = "usage"}
    IN IF S = {} \/ i > 1 THEN 0 ELSE CHOOSE j \in S : \A k \in S : j <= k

\* the first index >= i of a usage content of unit u, 0 when there is none
NextUsage(u, i) ==
    LET S == {j \in i..Len(u.contents) : u.contents[j].type = "usage"}
    IN IF S = {} THEN 0 ELSE CHOOSE j \in S : \A k \in S : j <= k

TotalUnits == LET RECURSIVE Sum(_)
                  Sum(n) == IF n = 0 THEN 0 ELSE Len(hist[n].units) + Sum(n - 1)
              IN Sum(NumReqs)

\* the exceptions raised so far, and the clients gone so far
Faults == Cardinality({r \in Reqs : hist[r].fail # "none"})
Disconnects == Cardinality({r \in Reqs : req[r].pc = "closed"})
MayFail == Faults < MaxFaults
\* whether a call that can raise does
MayRaise == IF MayFail THEN BOOLEAN ELSE {FALSE}

\* a unit whose handling raises: a usage content without usage_details
IsBroken(u) ==
    \E j \in 1..Len(u.contents) :
        u.contents[j].type = "usage" /\ u.contents[j].usage_details = <<>>

NewReq ==
    [pc |-> "new", text |-> <<>>, conversationId |-> "", status |-> 0,
     detail |-> "", agent |-> None, thread_id |-> None, thread |-> None,
     user_input |-> <<>>, chunk |-> NoUnit, ci |-> 0, stream |-> "none",
     out |-> <<>>]

NewHist ==
    [units |-> <<>>, src |-> <<>>, lookups |-> 0, created |-> 0, resumed |-> 0,
     ran_on |-> <<>>, ended |-> FALSE, inserts |-> 0, fail |-> "none",
     raised |-> FALSE]

Init ==
    /\ data = [k \in {} |-> None]
    /\ locked = FALSE
    /\ assigned = 0
    /\ req = [r \in Reqs |-> NewReq]
    /\ hist = [r \in Reqs |-> NewHist]

\* Faulty variant: no validation of conversationId
stream_messages_unvalidated(r, text, conversationId) ==
    /\ req[r].pc = "new"
    /\ req' = [req EXCEPT ![r].pc = "start", ![r].text = text,
                          ![r].conversationId = conversationId,
                          ![r].status = 200]
    /\ UNCHANGED <<data, locked, assigned, hist>>

\* POST /api/v1/messages
stream_messages(r, text, conversationId) ==
    /\ req[r].pc = "new"
    /\ req' = [req EXCEPT ![r] =
          IF conversationId = ""
          THEN [@ EXCEPT !.pc = "rejected", !.text = text,
                         !.conversationId = conversationId,
                         !.status = 400, !.detail = Detail400]
          ELSE [@ EXCEPT !.pc = "start", !.text = text,
                         !.conversationId = conversationId,
                         !.status = 200]]
    /\ UNCHANGED <<data, locked, assigned, hist>>

\* Faulty variant: the exception is swallowed without an error frame
FailSilently(r, kind, msg, nreq, nhist) ==
    /\ req' = [nreq EXCEPT ![r].pc = "yield_error"]
    /\ hist' = [nhist EXCEPT ![r].fail = kind]

\* The except clause: one error frame is yielded; the generator is then parked
\* at that yield.  nreq and nhist are the state the try block had reached.
Fail(r, kind, msg, nreq, nhist) ==
    /\ req' = [nreq EXCEPT ![r].pc = "yield_error",
                           ![r].out = Append(@, error_frame(msg))]
    /\ hist' = [nhist EXCEPT ![r].fail = kind, ![r].src = Append(@, 0)]

\* Faulty variant: the stored thread is resumed by the chat agent only; a
\* builder turn always starts a new thread
relay_begin_per_agent(r) ==
    /\ req[r].pc = "start"
    /\ ~locked
    /\ LET thread_id == IF select_agent(req[r].text) = "chat_agent"
                        THEN get_internal_id(data, req[r].conversationId)
                        ELSE None
           r1 == [req EXCEPT ![r].agent = select_agent(req[r].text),
                             ![r].thread_id = thread_id]
           h1 == [hist EXCEPT ![r].lookups = @ + 1]
       IN /\ locked' = async_with_lock(FALSE)
          /\ \E raises \in MayRaise :
                IF ~raises
                THEN /\ req' = [r1 EXCEPT
                            ![r].pc = "stream",
                            ![r].thread = get_new_thread(thread_id),
                            ![r].user_input = user_input(req[r].text),
                            ![r].stream = "open"]
                     /\ hist' = [h1 EXCEPT
                            ![r].created =
                                IF get_new_thread(thread_id) = None THEN @ + 1 ELSE @,
                            ![r].resumed =
                                IF get_new_thread(thread_id) # None THEN @ + 1 ELSE @,
                            ![r].ran_on = Append(@, get_new_thread(thread_id))]
                ELSE Fail(r, "thread", ThreadError, r1, h1)
    /\ UNCHANGED <<data, assigned>>

\* generate_response from its first line to the first suspension: agent
\* selection, the store lookup, the thread handle, the run_stream call.
relay_begin(r) ==
    /\ req[r].pc = "start"
    /\ ~locked
    /\ LET thread_id == get_internal_id(data, req[r].conversationId)
           r1 == [req EXCEPT ![r].agent = select_agent(req[r].text),
                             ![r].thread_id = thread_id]
           h1 == [hist EXCEPT ![r].lookups = @ + 1]
       IN /\ locked' = async_with_lock(FALSE)
          /\ \E raises \in MayRaise :
                IF ~raises
                THEN /\ req' = [r1 EXCEPT
                            ![r].pc = "stream",
                            ![r].thread = get_new_thread(thread_id),
                            ![r].user_input = user_input(req[r].text),
                            ![r].stream = "open"]
                     /\ hist' = [h1 EXCEPT
                            ![r].created =
                                IF get_new_thread(thread_id) = None THEN @ + 1 ELSE @,
                            ![r].resumed =
                                IF get_new_thread(thread_id) # None THEN @ + 1 ELSE @,
                            ![r].ran_on = Append(@, get_new_thread(thread_id))]
                ELSE Fail(r, "thread", ThreadError, r1, h1)
    /\ UNCHANGED <<data, assigned>>

\* Faulty variant: the usage contents of a unit are handled before its text
loop_body_usage_first(r, u, i, nreq, nhist) ==
    LET j == NextUsage(u, i) IN
    IF j # 0 /\ u.contents[j].usage_details # <<>>
    THEN /\ req' = [nreq EXCEPT
                ![r].pc = "yield", ![r].chunk = u, ![r].ci = j + 1,
                ![r].out = Append(@,
                    format_sse(model_dump_json(
                        Usage(u.contents[j].usage_details[1])), EvUsage))]
         /\ hist' = [nhist EXCEPT ![r].src = Append(@, Len(nhist[r].units))]
    ELSE IF j # 0
    THEN Fail(r, "payload", PayloadError,
              [nreq EXCEPT ![r].chunk = u, ![r].ci = j], nhist)
    ELSE IF u.text # <<>>
    THEN /\ req' = [nreq EXCEPT ![r].pc = "yield", ![r].chunk = u, ![r].ci = 0,
                                ![r].out = Append(@, format_sse(u.text, EvText))]
         /\ hist' = [nhist EXCEPT ![r].src = Append(@, Len(nhist[r].units))]
    ELSE /\ req' = [nreq EXCEPT ![r].pc = "stream", ![r].chunk = NoUnit,
                                ![r].ci = 0]
         /\ hist' = nhist

\* The body of the async for loop for unit u, from its contents[i] on when the
\* unit has no text: up to the next yield, the next unit, or an exception.
loop_body(r, u, i, nreq, nhist) ==
    IF u.text # <<>>
    THEN /\ req' = [nreq EXCEPT ![r].pc = "yield", ![r].chunk = u, ![r].ci = 0,
                                ![r].out = Append(@, format_sse(u.text, EvText))]
         /\ hist' = [nhist EXCEPT ![r].src = Append(@, Len(nhist[r].units))]
    ELSE LET j == NextUsage(u, i) IN
         IF j = 0
         THEN /\ req' = [nreq EXCEPT ![r].pc = "stream", ![r].chunk = NoUnit,
                                     ![r].ci = 0]
              /\ hist' = nhist
         ELSE IF u.contents[j].usage_details = <<>>
         THEN Fail(r, "payload", PayloadError,
                   [nreq EXCEPT ![r].chunk = u, ![r].ci = j], nhist)
         ELSE /\ req' = [nreq EXCEPT
                     ![r].pc = "yield", ![r].chunk = u, ![r].ci = j + 1,
                     ![r].out = Append(@,
                         format_sse(model_dump_json(
                             Usage(u.contents[j].usage_details[1])), EvUsage))]
              /\ hist' = [nhist EXCEPT ![r].src = Append(@, Len(nhist[r].units))]

\* Faulty variant: the mapping of a new conversation is saved as soon as the first
\* unit arrives
run_stream_unit_saving(r, u, max) ==
    /\ req[r].pc = "stream"
    /\ TotalUnits < max
    /\ IsBroken(u) => MayFail
    /\ LET first == req[r].thread_id = None /\ req[r].thread = None
           sid == IF first THEN ThreadIds[assigned + 1] ELSE req[r].thread
       IN /\ loop_body(r, u, 1, [req EXCEPT ![r].thread = sid],
                       [hist EXCEPT ![r].units = Append(@, u),
                                    ![r].inserts = IF first THEN @ + 1 ELSE @])
          /\ data' = IF first
                     THEN save_mapping(data, req[r].conversationId, sid)
                     ELSE data
          /\ assigned' = IF first THEN assigned + 1 ELSE assigned
    /\ UNCHANGED locked

\* the backend produces the next unit of the stream
run_stream_unit(r, u, max) ==
    /\ req[r].pc = "stream"
    /\ TotalUnits < max
    /\ IsBroken(u) => MayFail
    /\ loop_body(r, u, 1, req, [hist EXCEPT ![r].units = Append(@, u)])
    /\ UNCHANGED <<data, locked, assigned>>

\* Faulty variant: the mapping is saved on the way out of a failed stream, under the
\* id the backend had given the new thread
run_stream_error_saving(r, e) ==
    /\ req[r].pc = "stream"
    /\ MayFail
    /\ req' = [req EXCEPT ![r].pc = "yield_error", ![r].stream = "closed",
                          ![r].thread = ThreadIds[assigned + 1],
                          ![r].out = Append(@, format_sse(ErrorJson(e), EvError))]
    /\ hist' = [hist EXCEPT ![r].fail = "stream", ![r].src = Append(@, 0),
                            ![r].inserts = @ + 1]
    /\ data' = [k \in DOMAIN data \cup {req[r].conversationId} |->
                    IF k = req[r].conversationId THEN ThreadIds[assigned + 1]
                    ELSE data[k]]
    /\ assigned' = assigned + 1
    /\ UNCHANGED locked

\* the backend stream raises
run_stream_error(r, e) ==
    /\ req[r].pc = "stream"
    /\ MayFail
    /\ Fail(r, "stream", e, [req EXCEPT ![r].stream = "closed"], hist)
    /\ UNCHANGED <<data, locked, assigned>>

\* The backend stream ends; the backend may have populated the handle of a new
\* thread.  Then the mapping is saved for a new conversation.
run_stream_end(r) ==
    /\ req[r].pc = "stream"
    /\ \E sid \in (IF req[r].thread = None
                   THEN {None, ThreadIds[assigned + 1]} ELSE {req[r].thread}) :
          LET r1 == [req EXCEPT ![r].stream = "closed", ![r].thread = sid,
                                ![r].chunk = NoUnit]
              h1 == [hist EXCEPT ![r].ended = TRUE]
          IN /\ assigned' = IF sid # req[r].thread THEN assigned + 1 ELSE assigned
             /\ IF should_save(req[r].thread_id, sid)
                THEN /\ ~locked
                     /\ data' = save_mapping(data, req[r].conversationId, sid)
                     /\ \E raises \in MayRaise :
                           /\ locked' = async_with_lock(raises)
                           /\ IF raises
                              THEN Fail(r, "insert", StdoutError, r1,
                                        [h1 EXCEPT ![r].inserts = @ + 1])
                              ELSE /\ req' = [r1 EXCEPT ![r].pc = "done"]
                                   /\ hist' = [h1 EXCEPT ![r].inserts = @ + 1]
                ELSE /\ req' = [r1 EXCEPT ![r].pc = "done"]
                     /\ hist' = h1
                     /\ UNCHANGED <<data, locked>>

\* Faulty variant: the except clause re-raises after its yield
resume_reraising(r) ==
    /\ req[r].pc \in {"yield", "yield_error"}
    /\ IF req[r].pc = "yield_error"
       THEN /\ req' = [req EXCEPT ![r].pc = "closed"]
            /\ hist' = [hist EXCEPT ![r].raised = TRUE]
       ELSE /\ req' = [req EXCEPT ![r].pc = "stream", ![r].chunk = NoUnit]
            /\ hist' = hist
    /\ UNCHANGED <<data, locked, assigned>>

\* the consumer asks for the next frame: the generator resumes after its yield
resume(r) ==
    /\ req[r].pc \in {"yield", "yield_error"}
    /\ IF req[r].pc = "yield_error"
       THEN /\ req' = [req EXCEPT ![r].pc = "done"]
            /\ hist' = hist
       ELSE IF req[r].chunk.text # <<>>
       THEN /\ req' = [req EXCEPT ![r].pc = "stream", ![r].chunk = NoUnit]
            /\ hist' = hist
       ELSE loop_body(r, req[r].chunk, req[r].ci, req, hist)
    /\ UNCHANGED <<data, locked, assigned>>

\* Faulty variant: the mapping of a new conversation is saved in the finally
\* clause, which also runs when the client goes away
disconnect_saving(r) ==
    /\ req[r].pc \in {"stream", "yield", "yield_error"}
    /\ Disconnects < MaxDisconnects
    /\ LET new == req[r].thread_id = None /\ hist[r].inserts = 0
           sid == IF new THEN ThreadIds[assigned + 1] ELSE req[r].thread
       IN /\ req' = [req EXCEPT ![r].pc = "closed", ![r].thread = sid,
                                ![r].stream = IF req[r].pc = "stream"
                                              THEN "closed" ELSE @]
          /\ hist' = [hist EXCEPT ![r].raised = (req[r].pc = "stream"),
                                  ![r].inserts = IF new THEN @ + 1 ELSE @]
          /\ data' = IF new THEN save_mapping(data, req[r].conversationId, sid)
                     ELSE data
          /\ assigned' = IF new THEN assigned + 1 ELSE assigned
    /\ UNCHANGED locked

\* The client goes away.  A generator parked at a yield is closed there
\* (GeneratorExit: the finally clause runs, nothing closes the backend
\* iterator); one awaiting the backend is cancelled inside the backend stream
\* (CancelledError passes the except clause and leaves the generator).
disconnect(r) ==
    /\ req[r].pc \in {"stream", "yield", "yield_error"}
    /\ Disconnects < MaxDisconnects
    /\ IF req[r].pc = "stream"
       THEN /\ req' = [req EXCEPT ![r].pc = "closed", ![r].stream = "closed"]
            /\ hist' = [hist EXCEPT ![r].raised = TRUE]
       ELSE /\ req' = [req EXCEPT ![r].pc = "closed"]
            /\ hist' = hist
    /\ UNCHANGED <<data, locked, assigned>>

\* The requests R, with texts T, conversation ids C and at most max backend
\* units, each from U.
RelayOn(R, T, C, U, max) ==
    \E r \in R :
        \/ \E text \in T, conversationId \in C :
              stream_messages(r, text, conversationId)
        \/ relay_begin(r)
        \/ \E u \in U : run_stream_unit(r, u, max)
        \/ \E e \in Errors : run_stream_error(r, e)
        \/ run_stream_end(r)
        \/ resume(r)
        \/ disconnect(r)

\* The requests R, with texts T and at most max backend units, each from U.
Relay(R, T, U, max) == RelayOn(R, T, ConvIds \cup {""}, U, max)

\* Concurrent requests, each stream made of plain text units.
Next == Relay(Reqs, {Hi}, {UnitA}, MaxUnits)

Spec == Init /\ [][Next]_vars

\* One request, over every kind of text and unit.
NextStream == Relay({1}, Texts, Units, MaxStreamUnits)

SpecStream == Init /\ [][NextStream]_vars

\* One request, over texts around the word "calendar".
NextAgents == RelayOn({1}, AgentTexts, ConvIds \cup {""}, {UnitA}, MaxLockUnits)

SpecAgents == Init /\ [][NextAgents]_vars

\* One request, over every payload of a text frame and of a usage frame.
NextFrames == Relay({1}, {Hi}, PayloadUnits \cup UsageUnits, MaxFrameUnits)

SpecFrames == Init /\ [][NextFrames]_vars

\* Concurrent requests of one conversation, served by either agent.
NextVariants == RelayOn(Reqs, Texts, {"c1"}, {UnitA}, MaxLockUnits)

SpecVariants == Init /\ [][NextVariants]_vars

\* The event loop runs every coroutine that is ready: a generator that has
\* been handed to the response is started.
NextLock == Relay(Reqs, {Hi}, {UnitA}, MaxLockUnits)

FairSpec ==
    Init /\ [][NextLock]_vars /\ \A r \in Reqs : WF_vars(relay_begin(r))

\* ------------------------------------------------------------------ claims
Started(r) == hist[r].lookups > 0
Mapped(r) == Started(r) /\ req[r].thread_id # None
Unmapped(r) == Started(r) /\ req[r].thread_id = None
Finished(r) == req[r].pc \in {"done", "closed"}
ErrorFrames(r) ==
    {i \in 1..Len(req[r].out) : EventOf(req[r].out[i]) = EvError}
TextFrames(r) ==
    {i \in 1..Len(req[r].out) : EventOf(req[r].out[i]) = EvText}

\* C1: the store holds at most one internal id per external id, and a mapping
\* that has been set is never changed afterwards.
C1_NeverOverwritten ==
    [][\A k \in DOMAIN data : k \in DOMAIN data' /\ data'[k] = data[k]]_vars

C3_ResumeStoredThread ==
    /\ [](\A r \in Reqs :
            (Mapped(r) /\ hist[r].fail # "thread")
                => /\ hist[r].ran_on = <<req[r].thread_id>>
                   /\ req[r].thread = req[r].thread_id
                   /\ hist[r].created = 0 /\ hist[r].inserts = 0)
    /\ [][\A r \in Reqs :
            (req'[r] # req[r] /\ req'[r].thread_id # None) => data' = data]_vars

C3_Witness ==
    \E r \in Reqs :
        /\ Mapped(r) /\ req[r].pc = "done" /\ hist[r].ended
        /\ data[req[r].conversationId] = req[r].thread_id

\* C4: a stream in which a failure occurred holds exactly one error event and
\* it is the last event; a stream without failure holds no error event.
C4_OneErrorLast ==
    \A r \in Reqs :
        IF hist[r].fail # "none"
        THEN ErrorFrames(r) = {Len(req[r].out)} /\ Len(req[r].out) > 0
        ELSE ErrorFrames(r) = {}

C4_Witness ==
    \E r \in Reqs :
        /\ hist[r].fail = "payload" /\ req[r].pc = "done"
        /\ Len(req[r].out) = 3 /\ ErrorFrames(r) = {3}

\* C5: when the backend stream fails for an id that had no mapping, the call
\* inserts nothing: the store is as it was, though a new handle had been made.
C5_NoInsertOnStreamFailure ==
    \A r \in Reqs :
        (Unmapped(r) /\ hist[r].fail = "stream")
            => /\ hist[r].inserts = 0
               /\ DOMAIN data = {}

C5_Witness ==
    \E r \in Reqs :
        /\ Unmapped(r) /\ hist[r].fail = "stream" /\ hist[r].created = 1
        /\ Len(hist[r].units) > 0 /\ req[r].pc = "done"

\* C6: a request with the empty conversationId is answered 400 with the detail
\* message, and nothing of the relay happens for it.
C6_EmptyIdRejected ==
    \A r \in Reqs :
        (req[r].pc # "new" /\ req[r].conversationId = "")
            => /\ req[r].pc = "rejected"
               /\ req[r].status = 400 /\ req[r].detail = Detail400
               /\ hist[r] = NewHist
               /\ req[r].out = <<>> /\ req[r].stream = "none"

C6_Witness ==
    \E r \in Reqs : req[r].pc = "rejected" /\ req[r].status = 400

\* C7: frames are in backend-production order, each frame comes from exactly
\* one unit, no two text frames from the same unit, and a text frame read back
\* gives its unit's text.
C7_ProductionOrder ==
    \A r \in Reqs :
        LET out == req[r].out
            src == hist[r].src
        IN /\ Len(src) = Len(out)
           /\ \A i \in 1..Len(out) :
                 EventOf(out[i]) # EvError => src[i] \in 1..Len(hist[r].units)
           /\ \A i, j \in 1..Len(out) :
                 (i < j /\ EventOf(out[j]) # EvError) => src[i] <= src[j]
           /\ \A i, j \in TextFrames(r) : i < j => src[i] < src[j]
           /\ \A i \in TextFrames(r) :
                 DataOf(out[i]) = hist[r].units[src[i]].text
           /\ Cardinality(TextFrames(r)) =
                 Cardinality({n \in 1..Len(hist[r].units) :
                                 hist[r].units[n].text # <<>>})

C7_Witness ==
    \E r \in Reqs :
        /\ Len(hist[r].units) = 3 /\ Len(req[r].out) = 3
        /\ hist[r].units[1] = UnitBC /\ hist[r].units[2] = UnitUsage
        /\ hist[r].units[3] = UnitA
        /\ DataOf(req[r].out[1]) = UnitBC.text

\* C8: when a relay call that started the backend stream has finished, the
\* backend stream is no longer open.
C8_StreamReleased ==
    \A r \in Reqs : Finished(r) => req[r].stream # "open"

\* C9: the lock is never held while a coroutine is parked, and under fair
\* scheduling every call that is to look up its id gets its lookup done (no
\* call stays before its lookup forever).
C9_LookupReturns ==
    /\ [](~locked)
    /\ \A r \in Reqs : []<>(req[r].pc # "start")

C9_Witness ==
    \E r1, r2 \in Reqs :
        /\ r1 # r2 /\ Started(r1) /\ req[r2].pc = "start"
        /\ hist[r1].fail = "insert"

\* C10: after a failure below the relay the generator ends normally after its
\* error frame: nothing is raised to the HTTP layer and the status stays 200.
C10_FailureNotRaised ==
    \A r \in Reqs :
        hist[r].fail # "none"
            => /\ ~hist[r].raised /\ req[r].status = 200
               /\ req[r].pc \in {"yield_error", "done", "closed"}

C10_Witness ==
    \E r \in Reqs :
        /\ hist[r].fail = "insert" /\ req[r].pc = "done"
        /\ ErrorFrames(r) = {Len(req[r].out)}

\* The letters c, a, l, e, n, d, a, r in either case stand at i, i+1, ... of text.
CalendarAt(text, i) ==
    /\ i + 7 <= Len(text)
    /\ text[i] \in {"c", "C"} /\ text[i + 1] \in {"a", "A"}
    /\ text[i + 2] \in {"l", "L"} /\ text[i + 3] \in {"e", "E"}
    /\ text[i + 4] \in {"n", "N"} /\ text[i + 5] \in {"d", "D"}
    /\ text[i + 6] \in {"a", "A"} /\ text[i + 7] \in {"r", "R"}
HasCalendar(text) == \E i \in 1..Len(text) : CalendarAt(text, i)

\* C11: the builder agent is selected exactly for the texts that hold
\* "calendar" in any case anywhere; the backend is then sent the text followed
\* by the JSON instruction, and otherwise the chat agent gets the text as it is.
C11_AgentByCalendar ==
    \A r \in Reqs :
        hist[r].ran_on # <<>>
            => IF HasCalendar(req[r].text)
               THEN /\ req[r].agent = "builder_agent"
                    /\ req[r].user_input = req[r].text \o JsonInstruction
               ELSE /\ req[r].agent = "chat_agent"
                    /\ req[r].user_input = req[r].text

C11_Witness ==
    \E r \in Reqs :
        /\ req[r].text = Calendarium /\ req[r].agent = "builder_agent"
        /\ req[r].pc = "done" /\ hist[r].ended
        /\ Len(req[r].user_input) = Len(Calendarium) + Len(JsonInstruction)

\* The frame of payload p, written character by character: each newline of p
\* ends one data line and starts the next.
FrameOf(p, event) ==
    EventPrefix \o event \o NL \o DataPrefix \o
    Concat([i \in 1..Len(p) |->
                IF p[i] = "\n" THEN NL \o DataPrefix ELSE <<p[i]>>]) \o NL \o NL
Newlines(p) == Cardinality({i \in 1..Len(p) : p[i] = "\n"})
Frame12 ==
    <<"e","v","e","n","t",":"," ","t","e","x","t","\n",
      "d","a","t","a",":"," ","l","i","n","e","1","\n",
      "d","a","t","a",":"," ","l","i","n","e","2","\n","\n">>

\* C12: a frame is the event line, one data line per line of the payload in
\* order with empty lines kept (k newlines give k + 1 data lines), and a blank
\* line; text is the event name of a text unit; "line1\nline2" gives the
\* frame of the framing law.
C12_FrameLayout ==
    \A r \in Reqs : \A i \in 1..Len(req[r].out) :
        LET frame == req[r].out[i]
            lines == Split(frame, "\n")
        IN /\ frame = FrameOf(DataOf(frame), EventOf(frame))
           /\ EventOf(frame) \in {EvText, EvUsage, EvError}
           /\ hist[r].src[i] > 0 /\ hist[r].units[hist[r].src[i]].text # <<>>
                => LET p == hist[r].units[hist[r].src[i]].text
                   IN /\ frame = FrameOf(p, EvText)
                      /\ Len(lines) = 1 + (Newlines(p) + 1) + 2
                      /\ \A n \in 2..(Len(lines) - 2) :
                            SubSeq(lines[n], 1, Len(DataPrefix)) = DataPrefix
                      /\ lines[Len(lines)] = <<>> /\ lines[Len(lines) - 1] = <<>>
                      /\ p = Line1Line2 => frame = Frame12

C12_Witness ==
    \E r \in Reqs :
        /\ Len(req[r].out) = 1 /\ req[r].out[1] = Frame12
        /\ hist[r].units = <<[text |-> Line1Line2, contents |-> <<TextContent>>]>>

\* the count the backend gave under key k: its value, 0 when absent or null
Expect(d, k) == IF k \in DOMAIN d /\ d[k] # <<>> THEN d[k][1] ELSE 0
Usage005 ==
    <<"{","\"","i","n","p","u","t","_","t","o","k","e","n","s","\"",":","0",",",
      "\"","o","u","t","p","u","t","_","t","o","k","e","n","s","\"",":","0",",",
      "\"","t","o","t","a","l","_","t","o","k","e","n","s","\"",":","5","}">>

\* C13: each count of a usage event is the backend's value when the field is
\* present and not null, and 0 when it is absent or null; input absent, output
\* null, total 5 gives 0, 0, 5.
C13_UsageDefaults ==
    \A r \in Reqs : \A i \in 1..Len(req[r].out) :
        EventOf(req[r].out[i]) = EvUsage
            => LET u == hist[r].units[hist[r].src[i]]
                   d == u.contents[1].usage_details[1]
               IN /\ DataOf(req[r].out[i]) =
                        model_dump_json(
                            [input_tokens  |-> Expect(d, "input_token_count"),
                             output_tokens |-> Expect(d, "output_token_count"),
                             total_tokens  |-> Expect(d, "total_token_count")])
                  /\ u = UnitUsage => DataOf(req[r].out[i]) = Usage005

C13_Witness ==
    \E r \in Reqs :
        /\ hist[r].units = <<UnitUsage>> /\ Len(req[r].out) = 1
        /\ DataOf(req[r].out[1]) = Usage005

\* the units of call r whose loop body has run to its end
UnitDone(r, n) ==
    \/ n < Len(hist[r].units)
    \/ /\ n = Len(hist[r].units)
       /\ \/ req[r].pc = "stream" \/ hist[r].ended \/ hist[r].fail = "stream"
          \/ req[r].pc = "closed" /\ hist[r].raised
FramesOf(r, n) == {i \in 1..Len(req[r].out) : hist[r].src[i] = n}
UsageFramesOf(r, n) ==
    {i \in FramesOf(r, n) : EventOf(req[r].out[i]) = EvUsage}
UsageItems(u) ==
    Cardinality({j \in 1..Len(u.contents) : u.contents[j].type = "usage"})
UsageUnit(u) == u.text = <<>> /\ UsageItems(u) > 0

\* C14 as stated: every handled unit that carries usage accounting instead of
\* text gives exactly one usage event, whatever its content items.
C14_OneUsageEventPerUnit ==
    \A r \in Reqs : \A n \in 1..Len(hist[r].units) :
        (UnitDone(r, n) /\ UsageUnit(hist[r].units[n]))
            => Cardinality(UsageFramesOf(r, n)) = 1

\* C14 amended: every handled unit that carries usage accounting instead of
\* text gives one usage event per usage content item: exactly one when it has
\* one usage item.
C14_OneUsageEventPerItem ==
    \A r \in Reqs : \A n \in 1..Len(hist[r].units) :
        (UnitDone(r, n) /\ UsageUnit(hist[r].units[n]))
            => /\ Cardinality(UsageFramesOf(r, n)) = UsageItems(hist[r].units[n])
               /\ UsageItems(hist[r].units[n]) = 1
                    => Cardinality(UsageFramesOf(r, n)) = 1

C14_Witness ==
    \E r \in Reqs :
        /\ hist[r].units = <<UnitUsage2, UnitUsage>> /\ hist[r].ended
        /\ Cardinality(UsageFramesOf(r, 1)) = 2
        /\ Cardinality(UsageFramesOf(r, 2)) = 1

\* C15: in a call for an id without mapping, as long as the backend stream
\* has not ended the call has inserted nothing and a lookup of the id returns
\* absent; the insert comes with the end of the stream, and after it no frame
\* of the stream is emitted (only the error frame of a failed insert).
C15_InsertAfterStreamEnd ==
    /\ [](\A r \in Reqs :
            (Unmapped(r) /\ ~hist[r].ended)
                => /\ hist[r].inserts = 0
                   /\ get_internal_id(data, req[r].conversationId) = None)
    /\ [][\A r \in Reqs :
            /\ hist'[r].inserts > hist[r].inserts
                => /\ ~hist[r].ended /\ hist'[r].ended
                   /\ req[r].pc = "stream" /\ req'[r].stream = "closed"
                   /\ hist'[r].units = hist[r].units
            /\ hist[r].inserts > 0
                => /\ hist'[r].units = hist[r].units
                   /\ \A i \in 1..Len(req'[r].out) :
                        i > Len(req[r].out) => EventOf(req'[r].out[i]) = EvError
         ]_vars

C15_Witness ==
    \E r \in Reqs :
        /\ Unmapped(r) /\ hist[r].inserts = 1 /\ req[r].pc = "done"
        /\ Len(hist[r].units) = 2 /\ Len(req[r].out) = 2
        /\ hist[r].fail = "none"

\* C20: a handled unit with text gives exactly one frame, a text frame, and
\* none of its usage content; a handled unit without text gives one usage
\* frame per usage content item and nothing else, no frame when it has none.
C20_TextDecidesFrames ==
    \A r \in Reqs : \A n \in 1..Len(hist[r].units) :
        UnitDone(r, n)
            => LET u == hist[r].units[n] IN
               IF u.text # <<>>
               THEN /\ Cardinality(FramesOf(r, n)) = 1
                    /\ FramesOf(r, n) \subseteq TextFrames(r)
                    /\ UsageFramesOf(r, n) = {}
               ELSE /\ FramesOf(r, n) = UsageFramesOf(r, n)
                    /\ Cardinality(FramesOf(r, n)) = UsageItems(u)

C20_Witness ==
    \E r \in Reqs :
        /\ hist[r].units = <<UnitTextUsage, UnitOther>> /\ hist[r].ended
        /\ Len(req[r].out) = 1 /\ EventOf(req[r].out[1]) = EvText
        /\ Len(req[r].out) < Len(hist[r].units)

\* two calls that looked the same unmapped id up and both completed
RacedCompleted(r1, r2) ==
    /\ r1 # r2 /\ req[r1].conversationId = req[r2].conversationId
    /\ Unmapped(r1) /\ Unmapped(r2)
    /\ req[r1].pc = "done" /\ req[r2].pc = "done"
    /\ hist[r1].ended /\ hist[r2].ended
    /\ hist[r1].fail = "none" /\ hist[r2].fail = "none"
InsertedFor(k) ==
    {q \in Reqs : req[q].conversationId = k /\ hist[q].inserts > 0}
\* a step in which call r inserts writes its thread id under its id and
\* leaves every other key as it was; a step without insert leaves the store
LastWriteWins ==
    /\ \A r \in Reqs :
          hist'[r].inserts > hist[r].inserts
              => /\ DOMAIN data' = DOMAIN data \cup {req[r].conversationId}
                 /\ data'[req[r].conversationId] = req'[r].thread
                 /\ \A k \in DOMAIN data \ {req[r].conversationId} :
                        data'[k] = data[k]
    /\ (\A r \in Reqs : hist'[r].inserts = hist[r].inserts) => data' = data

\* C16 as stated: two calls that raced on the same unmapped id and both
\* completed have each created a thread and each inserted, and the id is
\* mapped to the thread id of one of them.
C16_BothInsert ==
    \A r1, r2 \in Reqs :
        RacedCompleted(r1, r2)
            => /\ hist[r1].created = 1 /\ hist[r2].created = 1
               /\ hist[r1].inserts = 1 /\ hist[r2].inserts = 1
               /\ req[r1].conversationId \in DOMAIN data
               /\ data[req[r1].conversationId] \in {req[r1].thread, req[r2].thread}

\* C16 amended: the same for two calls whose new threads the backend has each
\* given an id: each created its own thread, each inserted once, the id is
\* mapped to the thread id of a call that inserted for it (one of the two when
\* no other call did), and every insert step overwrites the entry of its id
\* with the inserting call's thread id and nothing else.
C16_BothInsertWhenIdsAssigned ==
    /\ [](\A r1, r2 \in Reqs :
            (RacedCompleted(r1, r2) /\ req[r1].thread # None
                                    /\ req[r2].thread # None)
                => /\ hist[r1].created = 1 /\ hist[r2].created = 1
                   /\ hist[r1].inserts = 1 /\ hist[r2].inserts = 1
                   /\ req[r1].thread # req[r2].thread
                   /\ req[r1].conversationId \in DOMAIN data
                   /\ data[req[r1].conversationId]
                        \in {req[q].thread : q \in InsertedFor(req[r1].conversationId)}
                   /\ InsertedFor(req[r1].conversationId) = {r1, r2}
                        => data[req[r1].conversationId]
                                \in {req[r1].thread, req[r2].thread})
    /\ [][LastWriteWins]_vars

C16_Witness ==
    \E r1, r2 \in Reqs :
        /\ RacedCompleted(r1, r2)
        /\ req[r1].thread = ThreadIds[1] /\ req[r2].thread = ThreadIds[2]
        /\ hist[r1].inserts = 1 /\ hist[r2].inserts = 1
        /\ data[req[r1].conversationId] = ThreadIds[2]

\* a call for an unmapped id whose client went away during the stream
Gone(r) == Unmapped(r) /\ req[r].pc = "closed" /\ hist[r].fail = "none"
NoInsertFor(k) ==
    \A q \in Reqs : req[q].conversationId = k => hist[q].inserts = 0

\* C17: a call for an unmapped id whose client goes away during the stream
\* emits no error event and inserts nothing; while no other call has inserted,
\* the id stays unmapped, and a call that then looks it up finds nothing and
\* starts a new thread.
C17_DisconnectLeavesNoMapping ==
    /\ [](/\ \A r \in Reqs :
               Gone(r) => /\ ErrorFrames(r) = {} /\ hist[r].inserts = 0
                          /\ ~hist[r].ended
          /\ \A k \in ConvIds : NoInsertFor(k) => k \notin DOMAIN data)
    /\ [][\A r, r2 \in Reqs :
            (/\ r # r2 /\ Gone(r)
             /\ req[r2].conversationId = req[r].conversationId
             /\ NoInsertFor(req[r].conversationId)
             /\ hist'[r2].lookups = hist[r2].lookups + 1)
                => /\ req'[r2].thread_id = None
                   /\ hist'[r2].resumed = 0
                   /\ hist'[r2].fail = "none"
                        => /\ hist'[r2].created = 1
                           /\ hist'[r2].ran_on = <<None>>]_vars

C17_Witness ==
    \E r, r2 \in Reqs :
        /\ r # r2 /\ Gone(r) /\ Len(req[r].out) = 1 /\ req[r].thread = None
        /\ req[r2].conversationId = req[r].conversationId
        /\ Unmapped(r2) /\ hist[r2].created = 1 /\ req[r2].pc = "done"
        /\ hist[r2].inserts = 1

\* C18: the id stored under X is the thread id of a thread created by a call
\* for X; the id a call resumes was stored by a call for its own X; a lookup
\* reads key X only and a change of key X comes from an insert of a call for X.
C18_SessionIsolation ==
    /\ [](/\ \A k \in DOMAIN data :
               \E q \in Reqs :
                   /\ req[q].conversationId = k /\ hist[q].created = 1
                   /\ hist[q].inserts = 1 /\ req[q].thread = data[k]
          /\ \A r \in Reqs :
               Mapped(r)
                   => /\ \E q \in Reqs \ {r} :
                          /\ req[q].conversationId = req[r].conversationId
                          /\ hist[q].created = 1 /\ hist[q].inserts = 1
                          /\ req[q].thread = req[r].thread_id
                      /\ \A q \in Reqs :
                          (q # r /\ req[q].conversationId # req[r].conversationId)
                              => req[q].thread # req[r].thread_id)
    /\ [][/\ \A r \in Reqs :
               hist'[r].lookups = hist[r].lookups + 1
                   => req'[r].thread_id =
                        IF req[r].conversationId \in DOMAIN data
                        THEN data[req[r].conversationId] ELSE None
          /\ \A k \in DOMAIN data' :
               (k \notin DOMAIN data \/ data'[k] # data[k])
                   => \E r \in Reqs :
                          /\ req[r].conversationId = k
                          /\ hist'[r].inserts = hist[r].inserts + 1
                          /\ data'[k] = req'[r].thread]_vars

C18_Witness ==
    \E r1, r2 \in Reqs :
        /\ req[r1].conversationId = "c1" /\ req[r2].conversationId = "c2"
        /\ DOMAIN data = {"c1", "c2"}
        /\ data["c1"] = req[r1].thread /\ data["c2"] = req[r2].thread
        /\ data["c1"] # data["c2"]

\* C19: a lookup returns the id stored under the conversation id whatever
\* agent serves the turn: a turn that found the thread id stored by a turn of
\* the other agent runs on that thread, creates no thread and inserts
\* nothing, and no step of it changes the mapping.
C19_MappingIgnoresAgent ==
    /\ [](\A r, q \in Reqs :
            (/\ r # q /\ Mapped(r) /\ hist[r].fail # "thread"
             /\ req[q].conversationId = req[r].conversationId
             /\ hist[q].inserts = 1 /\ req[q].agent # req[r].agent
             /\ req[r].thread_id = req[q].thread)
                => /\ hist[r].ran_on = <<req[q].thread>>
                   /\ req[r].thread = req[q].thread
                   /\ hist[r].created = 0 /\ hist[r].inserts = 0)
    /\ [][\A r \in Reqs :
            /\ (hist'[r].lookups = hist[r].lookups + 1
                    /\ req[r].conversationId \in DOMAIN data)
                   => req'[r].thread_id = data[req[r].conversationId]
            /\ (req'[r] # req[r] /\ req'[r].thread_id # None)
                   => data' = data]_vars

C19_Witness ==
    \E r, q \in Reqs :
        /\ req[q].agent = "chat_agent" /\ hist[q].inserts = 1
        /\ req[r].agent = "builder_agent" /\ Mapped(r)
        /\ req[r].pc = "done" /\ hist[r].ended
        /\ req[r].thread = req[q].thread
        /\ data[req[r].conversationId] = req[q].thread

====
